---- MODULE Spec2Model ----
(***************************************************************************)
(* A model of benchmark-compression.py: the module-level import probes     *)
(* (HAS_ZSTD, HAS_SNAPPY, HAS_LZ4), get_file_content, benchmark_algo and   *)
(* main.                                                                    *)
(*                                                                          *)
(* Byte strings are modelled by their length (the only thing the program   *)
(* reads from them besides passing them on) together with the codec and    *)
(* level that produced them.  time.perf_counter() differences are counted  *)
(* in ticks of 1/TicksPerSecond seconds.  A value rounded by round(x, n)   *)
(* is held as the integer x * 10^n.                                         *)
(***************************************************************************)
EXTENDS Integers, Sequences, FiniteSets

(***************************************************************************)
(* Bounds of the model.                                                    *)
(***************************************************************************)
\* largest corpus length, in bytes
MaxCorpus == 2
\* largest length a compressor returns, in bytes
MaxCompressed == 2
\* trials of one run of main() whose codec fails (raises, or returns data of
\* the wrong length)
MaxFaults == 1
\* largest value of zstd.MAX_COMPRESSION_LEVEL the installed library reports
MaxLibLevel == 2

(***************************************************************************)
(* Program constants.                                                      *)
(***************************************************************************)
MEBIBYTE == 1024 * 1024
\* resolution of the modelled clock
TicksPerSecond == 100000
\* round(comp_time, 4), round(decomp_time, 4)
TimeDecimals == 4
\* round(comp_throughput_mib_s, 2), round(decomp_throughput_mib_s, 2)
RateDecimals == 2
\* except: max_zstd = 19
ZstdFallbackLevel == 19

\* Python's None
None == [none |-> TRUE]

\* range(a, b) taken to include its stop value
RangeInclusive(a, b) == [i \in 1..(b - a + 1) |-> a + i - 1]

\* Python's range(a, b) as a sequence
Range(a, b) == [i \in 1..(b - a) |-> a + i - 1]

\* the elapsed times the clock can report: none, below the rounding of the
\* recorded time, around it, and long enough for the rate to round to zero
SlowTicks == TicksPerSecond \div 100
ClockTicks == {0, 1, 4, 6, 10, SlowTicks}

\* round-half-to-even of num / den, for num >= 0 and den > 0
RoundHalfEven(num, den) ==
    LET q == num \div den
        r == num % den
    IN  IF 2 * r < den THEN q
        ELSE IF 2 * r > den THEN q + 1
        ELSE IF q % 2 = 0 THEN q ELSE q + 1

\* round(t, 4) of a time of t ticks, in units of 10^-4 s
RoundTime(t) == RoundHalfEven(t * 10 ^ TimeDecimals, TicksPerSecond)

\* a rate in MiB/s as the exact fraction num / den
Rate(num, den) == [num |-> num, den |-> den]
ZeroRate == Rate(0, 1)

\* the guard put on the time as it is recorded, round(t, 4) > 0
ThroughputRoundedGuard(size, t) ==
    IF RoundTime(t) > 0
    THEN Rate(size * TicksPerSecond, MEBIBYTE * t) ELSE ZeroRate

\* size_mib / t  with size_mib = size / MEBIBYTE and t in ticks
Throughput(size, t) ==
    IF t > 0 THEN Rate(size * TicksPerSecond, MEBIBYTE * t) ELSE ZeroRate

\* round(rate, 2), in units of 10^-2 MiB/s
RoundRate(rate) == RoundHalfEven(rate.num * 10 ^ RateDecimals, rate.den)

(***************************************************************************)
(* State.                                                                  *)
(***************************************************************************)
VARIABLES
    HAS_ZSTD, HAS_SNAPPY, HAS_LZ4,  \* the module-level import flags
    input_file,        \* silesia.tar on disk: whether it exists, and its length
    pc,                \* where main() is
    original_data,     \* main's original_data (its length), None before the load
    results,           \* main's results list
    levels,            \* the levels the current for loop has still to yield
    max_zstd, zstd_ver,  \* main's zstd probe
    snappy_ver,        \* main's snappy probe
    output_json,       \* the written report, None while nothing is written
    writes,            \* how many times OUTPUT_JSON was opened for writing
    algo_pc,           \* where the running benchmark_algo call is
    frame,             \* the locals of the running benchmark_algo call
    res,               \* what the last benchmark_algo call returned
    calls,             \* the (name, level) of every benchmark_algo call, in order
    last_call,         \* the latest compress_func or decompress_func call
    failed,            \* the (name, level) of the calls that returned None
    faults             \* how many trials the codecs have failed so far

vars == <<HAS_ZSTD, HAS_SNAPPY, HAS_LZ4, input_file, pc, original_data, results,
          levels, max_zstd, zstd_ver, output_json, writes, algo_pc, frame, res,
          calls, last_call, failed, faults, snappy_ver>>

envVars == <<HAS_ZSTD, HAS_SNAPPY, HAS_LZ4, input_file>>

LibraryCodecs == {"gzip", "bzip2", "xz", "zstd", "lz4", "snappy"}

\* a lambda that leaves the level to the codec's default
ClosureDefaultLevel(codec, l) == [codec |-> codec, l |-> 0]

\* lambda d, l=level: <codec>.compress(d, <level keyword>=l): the codec and
\* the level bound to l when the lambda is created
Closure(codec, l) == [codec |-> codec, l |-> l]
\* a function of a codec's module passed as it is (gzip.decompress,
\* snappy.compress, ...)
Function(codec) == [codec |-> codec]

\* a bytes object: its length, and the compressor call that produced it
Bytes(n, func) == [len |-> n, by |-> func]
\* a value len() raises TypeError on
NotSized == [unsized |-> TRUE]

NoFrame == [name |-> None]

(***************************************************************************)
(* What the environment can do in a call.  The six library compressors     *)
(* raise or return a non-empty bytes object (every one of the formats has  *)
(* a header); any other callable may also return an empty or an unsized    *)
(* value.  A decompressor returns data of any length.  In a run of main()  *)
(* the measurements of a trial that does not fail are the typical ones;    *)
(* the direct caller of benchmark_algo sees every measurement.             *)
(***************************************************************************)
TypicalTicks == 6
TypicalCompressed == 1

Measured(all, typical) == IF pc = "caller" THEN all ELSE {typical}

ClockReads == Measured(ClockTicks, TypicalTicks)

CompressReturns(func) ==
    IF func.codec \in LibraryCodecs
    THEN {Bytes(n, func) : n \in Measured(1..MaxCompressed, TypicalCompressed)}
    ELSE {Bytes(n, func) : n \in 0..MaxCompressed} \cup {NotSized}

DecompressReturns(func) ==
    IF func.codec \in LibraryCodecs
    THEN {Bytes(n, func) : n \in 0..(MaxCorpus + 1)}
    ELSE {Bytes(n, func) : n \in 0..(MaxCorpus + 1)} \cup {NotSized}

\* the codec may fail a trial only while the run has faults to spare
MayFail == faults < MaxFaults

(***************************************************************************)
(* benchmark_algo                                                          *)
(***************************************************************************)
\* the locals of a call at line 59, before the compression
NewFrame(name, compress_func, decompress_func, data, version, level) ==
    [name |-> name, level |-> level, version |-> version,
     compress_func |-> compress_func, decompress_func |-> decompress_func,
     original_size |-> data,
     compressed_data |-> None, compressed_size |-> None,
     comp_time |-> None, comp_throughput_mib_s |-> None,
     decompressed_data |-> None, decomp_time |-> None,
     decomp_throughput_mib_s |-> None]

\* res = benchmark_algo(name, compress_func, decompress_func, data, version,
\* level=level): the call, up to line 59
Call(name, compress_func, decompress_func, data, version, level) ==
    /\ algo_pc' = "compress"
    /\ frame' = NewFrame(name, compress_func, decompress_func, data, version,
                         level)
    /\ calls' = Append(calls, <<name, level>>)

\* the dictionary benchmark_algo returns
TrialResult(f) ==
    [method |-> f.name,
     level |-> f.level,
     version |-> f.version,
     compression_time_seconds |-> RoundTime(f.comp_time),
     decompression_time_seconds |-> RoundTime(f.decomp_time),
     compression_throughput_mib_s |-> RoundRate(f.comp_throughput_mib_s),
     decompression_throughput_mib_s |-> RoundRate(f.decomp_throughput_mib_s),
     compressed_size_bytes |-> f.compressed_size]

\* the exception handled by no except clause
ReturnNoneUncaught ==
    /\ algo_pc' = "raised"
    /\ pc' = "crashed"
    /\ failed' = failed \cup {<<frame.name, frame.level>>}
    /\ faults' = faults + 1
    /\ UNCHANGED res

\* return None
ReturnNone ==
    /\ res' = None
    /\ algo_pc' = "returned"
    /\ failed' = failed \cup {<<frame.name, frame.level>>}
    /\ faults' = faults + 1
    /\ UNCHANGED pc

\* except Exception as e: print(...); return None  (lines 65-67)
CompressFailed ==
    /\ ReturnNone
    /\ UNCHANGED frame

\* except Exception as e: print(...); return None  (lines 80-82)
DecompressFailed(f) ==
    /\ ReturnNone
    /\ frame' = f

\* an exception raised outside the two try blocks: benchmark_algo does not
\* catch it, and neither does its caller, which dies of it
Raise ==
    /\ algo_pc' = "raised"
    /\ pc' = "crashed"
    /\ UNCHANGED <<res, faults, failed>>

\* the length of the decompressed data not compared
SizeMismatchUnchecked(decompressed_data, original_size) ==
    decompressed_data = NotSized

\* decompress_func called on the corpus
DecompressArgumentCorpus(f) == [len |-> f.original_size, by |-> None]

\* decompress_func(compressed_data): what the decompressor is called on
DecompressArgument(f) == f.compressed_data

\* len(decompressed_data) != original_size; len() of an unsized value raises
\* inside the same try block
SizeMismatch(decompressed_data, original_size) ==
    \/ decompressed_data = NotSized
    \/ decompressed_data.len # original_size

\* lines 61-72: the timed compress_func call, len(compressed_data) and the
\* compression throughput
BenchmarkCompress ==
    /\ algo_pc = "compress"
    /\ \/ /\ MayFail
          /\ last_call' = [fn |-> "compress", func |-> frame.compress_func,
                           arg |-> frame.original_size, ret |-> None]
          /\ CompressFailed
       \/ \E compressed_data \in CompressReturns(frame.compress_func),
             comp_time \in ClockReads :
            /\ last_call' = [fn |-> "compress", func |-> frame.compress_func,
                             arg |-> frame.original_size,
                             ret |-> compressed_data]
            /\ IF compressed_data = NotSized
               THEN /\ Raise
                    /\ frame' = [frame EXCEPT
                          !.compressed_data = compressed_data,
                          !.comp_time = comp_time]
               ELSE /\ frame' = [frame EXCEPT
                          !.compressed_data = compressed_data,
                          !.comp_time = comp_time,
                          !.compressed_size = compressed_data.len,
                          !.comp_throughput_mib_s =
                              Throughput(frame.original_size, comp_time)]
                    /\ algo_pc' = "decompress"
                    /\ UNCHANGED <<pc, res, faults, failed>>
    /\ UNCHANGED <<original_data, results, levels, max_zstd, zstd_ver,
                   snappy_ver, output_json, writes, envVars, calls>>

\* lines 74-109: the timed decompress_func call, the length check, the
\* decompression throughput, the ratio and the returned dictionary
BenchmarkDecompress ==
    /\ algo_pc = "decompress"
    /\ \/ /\ MayFail
          /\ last_call' = [fn |-> "decompress", func |-> frame.decompress_func,
                           arg |-> DecompressArgument(frame), ret |-> None]
          /\ DecompressFailed(frame)
       \/ \E decompressed_data \in DecompressReturns(frame.decompress_func),
             decomp_time \in ClockReads :
            LET checked == [frame EXCEPT
                    !.decompressed_data = decompressed_data]
                timed == [checked EXCEPT
                    !.decomp_time = decomp_time,
                    !.decomp_throughput_mib_s =
                        Throughput(frame.original_size, decomp_time)]
            IN  /\ last_call' = [fn |-> "decompress",
                                 func |-> frame.decompress_func,
                                 arg |-> DecompressArgument(frame),
                                 ret |-> decompressed_data]
                /\ IF SizeMismatch(decompressed_data, frame.original_size)
                   THEN MayFail /\ DecompressFailed(checked)
                   ELSE IF frame.compressed_size = 0
                   THEN Raise /\ frame' = timed
                   ELSE /\ res' = TrialResult(timed)
                        /\ algo_pc' = "returned"
                        /\ frame' = timed
                        /\ UNCHANGED <<pc, faults, failed>>
    /\ UNCHANGED <<original_data, results, levels, max_zstd, zstd_ver,
                   snappy_ver, output_json, writes, envVars, calls>>

(***************************************************************************)
(* get_file_content and main                                               *)
(***************************************************************************)
\* platform.python_version(), and the version strings of the libraries
PythonVersion == "python_version"
ZstdVersion == "zstd_version_number"
Lz4Version == "lz4_library_version_number"
SnappyVersion == "snappy_version"
Unknown == "unknown"

\* a dictionary is true when it is not empty; None is false
Truthy(r) == r # None

GzipLevels == Range(1, 10)
Bzip2Levels == Range(1, 10)
XzLevels == Range(0, 10)
ZstdLevels(max) == Range(1, max + 1)
Lz4Levels == Range(0, 13) \o <<16>>

\* one iteration of a for loop over the levels, or its end
ForLevel(name, version, next, nextLevels) ==
    /\ algo_pc = "idle"
    /\ IF levels # <<>>
       THEN /\ Call(name, Closure(name, Head(levels)), Function(name),
                    original_data, version, Head(levels))
            /\ levels' = Tail(levels)
            /\ UNCHANGED pc
       ELSE /\ pc' = next
            /\ levels' = nextLevels
            /\ UNCHANGED <<algo_pc, frame, calls>>
    /\ UNCHANGED <<original_data, results, max_zstd, zstd_ver, output_json,
                   writes, res, last_call, failed, faults, snappy_ver,
                   envVars>>

\* get_file_content(INPUT_FILENAME); results = []
LoadCorpus ==
    /\ pc = "load"
    /\ IF ~input_file.exists
       THEN /\ pc' = "exit"
            /\ UNCHANGED <<original_data, results, levels>>
       ELSE /\ original_data' = input_file.len
            /\ results' = <<>>
            /\ levels' = GzipLevels
            /\ pc' = "gzip"
    /\ UNCHANGED <<max_zstd, zstd_ver, output_json, writes, algo_pc, frame,
                   res, calls, last_call, failed, faults, snappy_ver,
                   envVars>>

BenchGzip ==
    /\ pc = "gzip"
    /\ ForLevel("gzip", PythonVersion, "bzip2", Bzip2Levels)

BenchBzip2 ==
    /\ pc = "bzip2"
    /\ ForLevel("bzip2", PythonVersion, "xz", XzLevels)

BenchXz ==
    /\ pc = "xz"
    /\ ForLevel("xz", PythonVersion, "zstd", <<>>)

\* if HAS_ZSTD: the probe of max_zstd and zstd_ver.  Either both reads
\* succeed, or one raises and the bare except sets both fallback values.
ProbeZstd ==
    /\ pc = "zstd"
    /\ algo_pc = "idle"
    /\ IF HAS_ZSTD
       THEN /\ \/ /\ max_zstd' = MaxLibLevel
                  /\ zstd_ver' = ZstdVersion
               \/ /\ max_zstd' = ZstdFallbackLevel
                  /\ zstd_ver' = Unknown
            /\ levels' = ZstdLevels(max_zstd')
            /\ pc' = "zstd_loop"
       ELSE /\ pc' = "lz4"
            /\ UNCHANGED <<max_zstd, zstd_ver, levels>>
    /\ UNCHANGED <<original_data, results, output_json, writes, algo_pc, frame,
                   res, calls, last_call, failed, faults, snappy_ver,
                   envVars>>

BenchZstd ==
    /\ pc = "zstd_loop"
    /\ ForLevel("zstd", zstd_ver, "lz4", <<>>)

\* the lz4 section entered whatever HAS_LZ4 is
EnterLz4Unguarded ==
    /\ pc = "lz4"
    /\ algo_pc = "idle"
    /\ levels' = Lz4Levels
    /\ pc' = "lz4_loop"
    /\ UNCHANGED <<original_data, results, max_zstd, zstd_ver, output_json,
                   writes, algo_pc, frame, res, calls, last_call, failed,
                   faults, snappy_ver, envVars>>

\* if HAS_LZ4: levels_to_test
EnterLz4 ==
    /\ pc = "lz4"
    /\ algo_pc = "idle"
    /\ IF HAS_LZ4
       THEN /\ levels' = Lz4Levels
            /\ pc' = "lz4_loop"
       ELSE /\ pc' = "snappy"
            /\ UNCHANGED levels
    /\ UNCHANGED <<original_data, results, max_zstd, zstd_ver, output_json,
                   writes, algo_pc, frame, res, calls, last_call, failed,
                   faults, snappy_ver, envVars>>

BenchLz4 ==
    /\ pc = "lz4_loop"
    /\ ForLevel("lz4", Lz4Version, "snappy", <<>>)

\* if HAS_SNAPPY: the probe of snappy_ver and the one snappy trial
BenchSnappy ==
    /\ pc = "snappy"
    /\ algo_pc = "idle"
    /\ IF HAS_SNAPPY
       THEN /\ snappy_ver' \in {SnappyVersion, Unknown}
            /\ Call("snappy", Function("snappy"), Function("snappy"),
                    original_data, snappy_ver', "default")
       ELSE UNCHANGED <<algo_pc, frame, calls, snappy_ver>>
    /\ pc' = "save"
    /\ UNCHANGED <<original_data, results, levels, max_zstd, zstd_ver,
                   output_json, writes, res, last_call, failed, faults,
                   envVars>>

\* results.insert(0, res)
AppendResultInFront ==
    /\ pc \in {"gzip", "bzip2", "xz", "zstd_loop", "lz4_loop", "save"}
    /\ algo_pc = "returned"
    /\ results' = IF Truthy(res) THEN <<res>> \o results ELSE results
    /\ algo_pc' = "idle"
    /\ UNCHANGED <<pc, original_data, levels, max_zstd, zstd_ver, output_json,
                   writes, frame, res, calls, last_call, failed, faults,
                   snappy_ver, envVars>>

\* the report written again after every trial
AppendResultAndSave ==
    /\ pc \in {"gzip", "bzip2", "xz", "zstd_loop", "lz4_loop", "save"}
    /\ algo_pc = "returned"
    /\ results' = IF Truthy(res) THEN Append(results, res) ELSE results
    /\ output_json' = [metadata |-> [original_file_size_bytes |-> original_data],
                       results |-> results']
    /\ writes' = writes + 1
    /\ algo_pc' = "idle"
    /\ UNCHANGED <<pc, original_data, levels, max_zstd, zstd_ver, frame, res,
                   calls, last_call, failed, faults, snappy_ver, envVars>>

\* if res: results.append(res)
AppendResult ==
    /\ pc \in {"gzip", "bzip2", "xz", "zstd_loop", "lz4_loop", "save"}
    /\ algo_pc = "returned"
    /\ results' = IF Truthy(res) THEN Append(results, res) ELSE results
    /\ algo_pc' = "idle"
    /\ UNCHANGED <<pc, original_data, levels, max_zstd, zstd_ver, output_json,
                   writes, frame, res, calls, last_call, failed, faults,
                   snappy_ver, envVars>>

Metadata == [original_file_size_bytes |-> original_data]

\* with open(OUTPUT_JSON, 'w') as f: json.dump(final_output, f, indent=4)
SaveResults ==
    /\ pc = "save"
    /\ algo_pc = "idle"
    /\ \/ /\ output_json' = [metadata |-> Metadata, results |-> results]
          /\ writes' = writes + 1
          /\ pc' = "done"
       \/ /\ pc' = "crashed"
          /\ UNCHANGED <<output_json, writes>>
    /\ UNCHANGED <<original_data, results, levels, max_zstd, zstd_ver, algo_pc,
                   frame, res, calls, last_call, failed, faults, snappy_ver,
                   envVars>>

Init ==
    /\ HAS_ZSTD \in BOOLEAN
    /\ HAS_SNAPPY \in BOOLEAN
    /\ HAS_LZ4 \in BOOLEAN
    /\ input_file \in {[exists |-> FALSE, len |-> 0],
                       [exists |-> TRUE, len |-> MaxCorpus]}
    /\ pc = "load"
    /\ original_data = None
    /\ results = <<>>
    /\ levels = <<>>
    /\ max_zstd = None
    /\ zstd_ver = None
    /\ output_json = None
    /\ writes = 0
    /\ algo_pc = "idle"
    /\ frame = NoFrame
    /\ res = None
    /\ calls = <<>>
    /\ last_call = None
    /\ failed = {}
    /\ faults = 0
    /\ snappy_ver = None

Next ==
    \/ LoadCorpus
    \/ BenchGzip
    \/ BenchBzip2
    \/ BenchXz
    \/ ProbeZstd
    \/ BenchZstd
    \/ EnterLz4
    \/ BenchLz4
    \/ BenchSnappy
    \/ AppendResult
    \/ SaveResults
    \/ BenchmarkCompress
    \/ BenchmarkDecompress

Spec == Init /\ [][Next]_vars

(***************************************************************************)
(* benchmark_algo called on its own: one call with any corpus length and   *)
(* any pair of callables, made by a caller that, like main, catches        *)
(* nothing.                                                                *)
(***************************************************************************)
InitAlgo ==
    /\ HAS_ZSTD = FALSE
    /\ HAS_SNAPPY = FALSE
    /\ HAS_LZ4 = FALSE
    /\ input_file = [exists |-> FALSE, len |-> 0]
    /\ pc = "caller"
    /\ original_data \in 0..MaxCorpus
    /\ results = <<>>
    /\ levels = <<>>
    /\ max_zstd = None
    /\ zstd_ver = None
    /\ snappy_ver = None
    /\ output_json = None
    /\ writes = 0
    /\ algo_pc = "compress"
    /\ frame = NewFrame("codec", Closure("callable", 1), Function("callable"),
                        original_data, Unknown, 1)
    /\ res = None
    /\ calls = <<<<"codec", 1>>>>
    /\ last_call = None
    /\ failed = {}
    /\ faults = 0

NextAlgo ==
    \/ BenchmarkCompress
    \/ BenchmarkDecompress

SpecAlgo == InitAlgo /\ [][NextAlgo]_vars

(***************************************************************************)
(* The matrix of the specification: the codecs in the order gzip, bzip2,   *)
(* xz, zstd, lz4, snappy, each with the levels of its declared domain in   *)
(* ascending order.                                                        *)
(***************************************************************************)
\* the levels a, a+1, ..., b
Interval(a, b) == [i \in 1..(b - a + 1) |-> a + i - 1]

Configs(codec, domain) == [i \in 1..Len(domain) |-> <<codec, domain[i]>>]

\* main() has run the zstd probe
ZstdProbed == HAS_ZSTD /\ pc \notin {"load", "exit", "gzip", "bzip2", "xz", "zstd"}

\* main() is past its last for loop
Enumerated == pc \in {"save", "done", "crashed"}

Finished == pc \in {"done", "crashed"}

Domain(codec) ==
    CASE codec = "gzip" -> Interval(1, 9)
      [] codec = "bzip2" -> Interval(1, 9)
      [] codec = "xz" -> Interval(0, 9)
      [] codec = "zstd" -> IF ZstdProbed THEN Interval(1, max_zstd) ELSE <<>>
      [] codec = "lz4" -> Interval(0, 12) \o <<16>>
      [] codec = "snappy" -> <<"default">>

Available(codec) ==
    CASE codec = "zstd" -> HAS_ZSTD
      [] codec = "lz4" -> HAS_LZ4
      [] codec = "snappy" -> HAS_SNAPPY
      [] OTHER -> TRUE

MatrixOrder == <<"gzip", "bzip2", "xz", "zstd", "lz4", "snappy">>

\* the configurations of the codecs in `codecs`, in matrix order
RECURSIVE MatrixOf(_, _)
MatrixOf(order, codecs) ==
    IF order = <<>> THEN <<>>
    ELSE (IF Head(order) \in codecs
          THEN Configs(Head(order), Domain(Head(order))) ELSE <<>>)
         \o MatrixOf(Tail(order), codecs)

AvailableCodecs == {c \in LibraryCodecs : Available(c)}

IsPrefix(s, t) == Len(s) <= Len(t) /\ s = SubSeq(t, 1, Len(s))

\* the calls of benchmark_algo made for one codec, in order
CallsOf(codec) == LET Named(k) == k[1] = codec IN SelectSeq(calls, Named)

\* (method, level) of a result
Key(r) == <<r.method, r.level>>
Keys(rs) == [i \in 1..Len(rs) |-> Key(rs[i])]

(***************************************************************************)
(* C4  Level-domain enumeration: for every codec main() runs, the calls of *)
(* benchmark_algo for it are, at every moment, the first levels of its     *)
(* domain in ascending order, each once, and once main() is past its loops *)
(* they are the whole domain: gzip 1..9, bzip2 1..9, xz 0..9, zstd         *)
(* 1..max_zstd, lz4 0..12 then 16, and snappy exactly once.                *)
(***************************************************************************)
C4_LevelDomainEnumeration ==
    \A codec \in AvailableCodecs :
        /\ IsPrefix(CallsOf(codec), Configs(codec, Domain(codec)))
        /\ Enumerated => CallsOf(codec) = Configs(codec, Domain(codec))

C4_Witness ==
    /\ pc = "done"
    /\ HAS_ZSTD /\ HAS_LZ4 /\ HAS_SNAPPY
    /\ max_zstd = ZstdFallbackLevel
    /\ Len(calls) = 9 + 9 + 10 + 19 + 14 + 1

(***************************************************************************)
(* C6  Unavailability isolation: no trial of a codec whose module is       *)
(* missing is ever started; the run still reaches the report write; and    *)
(* the trials and the results are those of the available codecs, in        *)
(* matrix order, each codec with the configurations it has when every      *)
(* codec is available.                                                     *)
(***************************************************************************)
C6_UnavailabilityIsolation ==
    /\ \A codec \in LibraryCodecs \ AvailableCodecs : CallsOf(codec) = <<>>
    /\ IsPrefix(calls, MatrixOf(MatrixOrder, AvailableCodecs))
    /\ Enumerated => calls = MatrixOf(MatrixOrder, AvailableCodecs)
    /\ LET Succeeded(k) == k \notin failed
       IN  (Enumerated /\ algo_pc = "idle") =>
               Keys(results) = SelectSeq(MatrixOf(MatrixOrder, AvailableCodecs),
                                         Succeeded)
    /\ (input_file.exists /\ ~Finished) => ENABLED Next

C6_Witness ==
    /\ pc = "done"
    /\ ~HAS_ZSTD /\ HAS_LZ4 /\ HAS_SNAPPY
    /\ faults = 0
    /\ Len(results) = 9 + 9 + 10 + 14 + 1

(***************************************************************************)
(* C8  Report write ordering: the output file is written at most once,     *)
(* nothing is written while a configuration is still to run or running,    *)
(* what is written is the whole results list, and when the corpus file is  *)
(* missing no trial starts and nothing is written.                         *)
(***************************************************************************)
C8_ReportWriteOrdering ==
    /\ writes <= 1
    /\ (writes = 0) = (output_json = None)
    /\ writes > 0 =>
           /\ pc = "done"
           /\ algo_pc = "idle"
           /\ calls = MatrixOf(MatrixOrder, AvailableCodecs)
           /\ output_json.results = results
    /\ ~input_file.exists =>
           /\ pc \in {"load", "exit"}
           /\ calls = <<>>
           /\ writes = 0

C8_Witness ==
    /\ pc = "done"
    /\ writes = 1
    /\ faults > 0
    /\ Len(output_json.results) > 0

VersionOf(codec) ==
    CASE codec = "zstd" -> zstd_ver
      [] codec = "lz4" -> Lz4Version
      [] codec = "snappy" -> snappy_ver
      [] OTHER -> PythonVersion

\* the entry of configuration k in a run in which no trial fails
FaultFreeEntry(k) ==
    [method |-> k[1],
     level |-> k[2],
     version |-> VersionOf(k[1]),
     compression_time_seconds |-> RoundTime(TypicalTicks),
     decompression_time_seconds |-> RoundTime(TypicalTicks),
     compression_throughput_mib_s |->
         RoundRate(Throughput(original_data, TypicalTicks)),
     decompression_throughput_mib_s |->
         RoundRate(Throughput(original_data, TypicalTicks)),
     compressed_size_bytes |-> TypicalCompressed]

\* the results of the fault-free run after the trials `done`, with the
\* entries of the trials in `without` taken out
FaultFreeWithout(done, without) ==
    LET Kept(k) == k \notin without
        kept == SelectSeq(done, Kept)
    IN  [i \in 1..Len(kept) |-> FaultFreeEntry(kept[i])]

(***************************************************************************)
(* C1  Failure isolation: a trial whose compression or decompression       *)
(* raises ends the run nowhere (main() stops only at the report write,     *)
(* with every configuration attempted), leaves no entry in results, and    *)
(* leaves the other entries what they are in the run without it: results   *)
(* is the fault-free run's list with the failed trials' entries taken out. *)
(***************************************************************************)
C1_FailureIsolation ==
    /\ Finished => calls = MatrixOf(MatrixOrder, AvailableCodecs)
    /\ (algo_pc = "returned" /\ res = None) => ENABLED AppendResult
    /\ (failed # {} /\ ~Finished) => ENABLED Next
    /\ \A i \in 1..Len(results) : Key(results[i]) \notin failed
    /\ algo_pc = "idle" => results = FaultFreeWithout(calls, failed)

C1_Witness ==
    /\ pc = "done"
    /\ failed # {}
    /\ Len(results) > 0
    /\ Len(results) = Len(calls) - 1

(***************************************************************************)
(* C2  Round-trip integrity gate: a call of benchmark_algo returns a       *)
(* result only when decompress_func returned data as long as the corpus;   *)
(* when it returned data of another length the call returns None, as it    *)
(* does when decompress_func raises, and no entry of results belongs to    *)
(* such a trial.                                                           *)
(***************************************************************************)
C2_RoundTripIntegrityGate ==
    /\ algo_pc = "returned" =>
           /\ res # None =>
                  /\ last_call.fn = "decompress"
                  /\ last_call.ret # None
                  /\ last_call.ret.len = original_data
           /\ (/\ last_call.fn = "decompress"
               /\ last_call.ret # None
               /\ last_call.ret.len # original_data) =>
                  /\ res = None
                  /\ <<frame.name, frame.level>> \in failed
    /\ \A i \in 1..Len(results) : Key(results[i]) \notin failed

C2_Witness ==
    /\ algo_pc = "returned"
    /\ res = None
    /\ last_call.fn = "decompress"
    /\ last_call.ret # None
    /\ last_call.ret.len # original_data
    /\ Len(results) > 0

\* where a codec stands in the enumeration
CodecPosition(codec) ==
    CASE codec = "gzip" -> 1
      [] codec = "bzip2" -> 2
      [] codec = "xz" -> 3
      [] codec = "zstd" -> 4
      [] codec = "lz4" -> 5
      [] codec = "snappy" -> 6

\* level is a level of the codec's domain
InDomain(codec, level) ==
    CASE codec = "gzip" -> level \in 1..9
      [] codec = "bzip2" -> level \in 1..9
      [] codec = "xz" -> level \in 0..9
      [] codec = "zstd" -> ZstdProbed /\ level \in 1..max_zstd
      [] codec = "lz4" -> level \in 0..12 \/ level = 16
      [] codec = "snappy" -> level = "default"
      [] OTHER -> FALSE

\* configuration r comes before configuration q in the enumeration
Before(r, q) ==
    \/ CodecPosition(r.method) < CodecPosition(q.method)
    \/ r.method = q.method /\ r.level < q.level

\* the entries are configurations of the matrix, each before the next
InEnumerationOrder(rs) ==
    /\ \A i \in 1..Len(rs) : InDomain(rs[i].method, rs[i].level)
    /\ \A i \in 1..(Len(rs) - 1) : Before(rs[i], rs[i + 1])

(***************************************************************************)
(* C7  Result ordering: results (and the report written from it) is at     *)
(* every moment a subsequence of the matrix enumeration; a step changes    *)
(* it only by appending one entry at its end.                              *)
(***************************************************************************)
C7_ResultOrdering ==
    [][/\ \/ results' = results
          \/ \E r \in {res} : r # None /\ results' = Append(results, r)
       /\ InEnumerationOrder(results)'
       /\ output_json' # None => InEnumerationOrder(output_json'.results)
      ]_vars

C7_Witness ==
    /\ pc = "done"
    /\ writes = 1
    /\ failed # {}
    /\ Len(output_json.results) > 20

(***************************************************************************)
(* C9  Phase ordering within a trial: decompress_func is called only       *)
(* right after compress_func returned, and on the very value it returned;  *)
(* a trial whose compression raises returns None without calling           *)
(* decompress_func; and benchmark_algo is called only when the call before *)
(* has returned and its result has been handled.                           *)
(***************************************************************************)
C9_PhaseOrdering ==
    [][/\ (last_call' # last_call /\ last_call'.fn = "decompress") =>
              /\ algo_pc = "decompress"
              /\ last_call.fn = "compress"
              /\ last_call.func = frame.compress_func
              /\ last_call.ret # None
              /\ last_call'.arg = last_call.ret
       /\ (last_call' # last_call /\ last_call'.fn = "compress"
           /\ last_call'.ret = None) =>
              /\ algo_pc' = "returned"
              /\ res' = None
       /\ (algo_pc = "returned" /\ last_call.fn = "compress") =>
              last_call' = last_call
       /\ calls' # calls => algo_pc = "idle" /\ algo_pc' = "compress"
      ]_vars

C9_Witness ==
    /\ algo_pc = "returned"
    /\ last_call.fn = "compress"
    /\ last_call.ret = None
    /\ res = None
    /\ Len(calls) > 1

(***************************************************************************)
(* C10  Configuration/result correspondence: no two entries of results     *)
(* have the same (method, level); there are no more entries than calls;    *)
(* a returned result carries the method and the level of the call that     *)
(* made it; and the level bound into the compressor called for a trial is  *)
(* the level of that trial.                                                *)
(***************************************************************************)
C10_ConfigResultCorrespondence ==
    /\ Cardinality({Key(results[i]) : i \in 1..Len(results)}) = Len(results)
    /\ Len(results) <= Len(calls)
    /\ {Key(results[i]) : i \in 1..Len(results)}
           \subseteq {calls[j] : j \in 1..Len(calls)}
    /\ (algo_pc = "returned" /\ res # None) =>
           Key(res) = calls[Len(calls)]
    /\ algo_pc = "decompress" =>
           /\ last_call.fn = "compress"
           /\ last_call.func.codec = frame.name
           /\ frame.name # "snappy" => last_call.func.l = frame.level
           /\ <<frame.name, frame.level>> = calls[Len(calls)]

C10_Witness ==
    /\ algo_pc = "returned"
    /\ res # None
    /\ res.method = "lz4"
    /\ res.level = 16
    /\ Len(results) > 40

(***************************************************************************)
(* C3  All per-trial faults are caught at the Trial Runner boundary:       *)
(* whatever compress_func and decompress_func do, the call of              *)
(* benchmark_algo ends by returning, and never in an exception that        *)
(* leaves it and kills its caller.                                         *)
(***************************************************************************)
C3_AllTrialFaultsCaught ==
    /\ algo_pc # "raised"
    /\ pc # "crashed"

\* hundredths of MiB/s recorded for `size` bytes in `t` ticks, when that is
\* exactly size_mib / elapsed seconds
IsExactRate(recorded, size, t) ==
    recorded * MEBIBYTE * t = size * TicksPerSecond * 10 ^ RateDecimals

(***************************************************************************)
(* C5  Throughput zero-guard, as first stated: in a returned result and    *)
(* for either phase, the recorded throughput is 0 exactly when             *)
(* the recorded time is 0, and otherwise it is the corpus size in MiB      *)
(* divided by the elapsed seconds, exactly.                                *)
(***************************************************************************)
C5_AsClaimed ==
    (algo_pc = "returned" /\ res # None) =>
        /\ (res.compression_throughput_mib_s = 0)
               = (res.compression_time_seconds = 0)
        /\ (res.decompression_throughput_mib_s = 0)
               = (res.decompression_time_seconds = 0)
        /\ res.compression_time_seconds # 0 =>
               IsExactRate(res.compression_throughput_mib_s,
                           frame.original_size, frame.comp_time)
        /\ res.decompression_time_seconds # 0 =>
               IsExactRate(res.decompression_throughput_mib_s,
                           frame.original_size, frame.decomp_time)

\* rate is 0 exactly when t or size is 0, and else size_mib / (t ticks)
IsGuardedRate(rate, size, t) ==
    /\ (rate.num = 0) = (t = 0 \/ size = 0)
    /\ t # 0 => rate = [num |-> size * TicksPerSecond, den |-> MEBIBYTE * t]
    /\ t = 0 => rate.den = 1

(***************************************************************************)
(* C5  Throughput zero-guard, amended: for either phase the throughput     *)
(* benchmark_algo computes is 0 exactly when the measured elapsed time is  *)
(* 0 (before any rounding) or the corpus is empty, and otherwise it is the *)
(* corpus size in MiB divided by the elapsed seconds, exactly; the         *)
(* recorded throughput is that value rounded to two decimals.              *)
(***************************************************************************)
C5_ThroughputZeroGuard ==
    /\ algo_pc = "decompress" =>
           IsGuardedRate(frame.comp_throughput_mib_s, frame.original_size,
                         frame.comp_time)
    /\ (algo_pc = "returned" /\ res # None) =>
           /\ IsGuardedRate(frame.comp_throughput_mib_s, frame.original_size,
                            frame.comp_time)
           /\ IsGuardedRate(frame.decomp_throughput_mib_s,
                            frame.original_size, frame.decomp_time)
           /\ res.compression_throughput_mib_s =
                  RoundHalfEven(frame.comp_throughput_mib_s.num * 100,
                                frame.comp_throughput_mib_s.den)
           /\ res.decompression_throughput_mib_s =
                  RoundHalfEven(frame.decomp_throughput_mib_s.num * 100,
                                frame.decomp_throughput_mib_s.den)

\* a time that rounds to 0 recorded beside a throughput that is not 0, and a
\* throughput that rounds to 0 beside a time that is not
C5_Witness ==
    /\ algo_pc = "returned"
    /\ res # None
    /\ res.compression_time_seconds = 0
    /\ res.compression_throughput_mib_s > 0
    /\ res.decompression_time_seconds > 0
    /\ res.decompression_throughput_mib_s = 0

====
